---- MODULE Spec2Model ----
(***************************************************************************)
(* Proof-guard backend: the shipment proof lifecycle (ShipmentsService),   *)
(* the proof upload (VideosService.upload), the share links of a proof     *)
(* video (ShareLinksService) and the tables they write.                    *)
(* Every request handler is split at its awaits: one action per database   *)
(* or blob-storage round trip, so that concurrent requests interleave the  *)
(* way they do on the Node event loop over one PostgreSQL database.        *)
(***************************************************************************)
EXTENDS Integers, Sequences, FiniteSets, TLC

(* ------------------------------- bounds -------------------------------- *)
\* concurrent request handlers
NumProcs == 2
\* requests issued in one behaviour (also the supply of fresh uuids)
MaxCalls == 3

\* the clock runs from 0 to MaxTime ticks
MaxTime == 3
\* the largest expiresInHours a request asks for
MaxHours == 1

Procs == 1..NumProcs
Awbs == {"AWB1"}
Orgs == {"org-A"}
Users == {"user-1"}
\* the organizations of the table: those a shipment request names and one more
OrgIds == Orgs \cup {"org-B"}
\* the unique index on (awb, organizationId) bounds the number of rows, and
\* with it the ids a request names
ShipmentIds == 1..(Cardinality(Awbs) * Cardinality(Orgs))
\* the primary keys the table has room for: one more than the unique index
\* allows, so that a second row with a stored pair has a key to take
ShipmentRows == 1..(Cardinality(ShipmentIds) + 1)

NULL == [null |-> TRUE]
NONE == "none"

\* the hex strings generateToken can return
Tokens == {"tok-a", "tok-b"}
\* CreateShareLinkDto.expiresInHours: @IsInt() @Min(1)
ExpiresInHours == 1..MaxHours
\* ticks of the clock in one hour
HourTicks == 2
\* the expiresInHours a request body can carry, written in half hours: -1,
\* 0, 0.5 and 1.5 hours and every whole number of hours of ExpiresInHours
RequestedExpiresIn ==
  {0 - HourTicks, 0, 1, HourTicks + 1} \cup {h * HourTicks : h \in ExpiresInHours}
\* the uuid of a row stored before the first request of a behaviour
SeedId == MaxCalls + 1
\* the uuids a request can name
LinkIds == 1..(SeedId + 1)
ProofVideoIds == {SeedId}

(* ------------------------- ShipmentStatus, table ----------------------- *)
ShipmentStatus == {"CREATED", "RECORDING", "PROCESSING", "SEALED", "FAILED"}

validTransitionsNoFailed ==
  [s \in ShipmentStatus |->
     CASE s = "CREATED"    -> <<"RECORDING">>
       [] s = "RECORDING"  -> <<"PROCESSING">>
       [] s = "PROCESSING" -> <<"SEALED">>
       [] s = "SEALED"     -> <<>>
       [] s = "FAILED"     -> <<>>]

validTransitions ==
  [s \in ShipmentStatus |->
     CASE s = "CREATED"    -> <<"RECORDING", "FAILED">>
       [] s = "RECORDING"  -> <<"PROCESSING", "FAILED">>
       [] s = "PROCESSING" -> <<"SEALED", "FAILED">>
       [] s = "SEALED"     -> <<>>
       [] s = "FAILED"     -> <<>>]

\* Array.prototype.includes
Includes(arr, x) == \E i \in 1..Len(arr) : arr[i] = x

\* TRUE when validateStateTransition returns, FALSE when it throws
validateStateTransitionNoSameStatus(currentStatus, newStatus) ==
  Includes(validTransitions[currentStatus], newStatus)

validateStateTransition(currentStatus, newStatus) ==
  IF currentStatus = newStatus
    THEN TRUE
    ELSE Includes(validTransitions[currentStatus], newStatus)

\* what the message of the exception validateStateTransition throws carries:
\* `Cannot move from ${currentStatus} to ${newStatus}. Allowed transitions: ...`
InvalidTransitionMessageWithoutList(currentStatus, newStatus) ==
  [currentStatus |-> currentStatus, newStatus |-> newStatus,
   allowed |-> <<"None (terminal state)">>]

InvalidTransitionMessage(currentStatus, newStatus) ==
  LET allowedTransitions == validTransitions[currentStatus]
  IN  [currentStatus |-> currentStatus, newStatus |-> newStatus,
       allowed |-> IF Len(allowedTransitions) > 0
                     THEN allowedTransitions
                     ELSE <<"None (terminal state)">>]

\* the message of the exception update throws for a sealed shipment
SealedMessage ==
  [text |-> "Cannot modify a sealed shipment. Sealed shipments are immutable."]

\* the outcome of the checks ShipmentsService.update makes on the row it read
UpdateChecksTableFirst(shipment, dtoStatus) ==
  IF dtoStatus # NONE /\ ~validateStateTransition(shipment.status, dtoStatus)
    THEN "InvalidTransition"
    ELSE IF shipment.status = "SEALED"
      THEN "ImmutableEntity"
      ELSE "pass"

UpdateChecks(shipment, dtoStatus) ==
  IF shipment.status = "SEALED"
    THEN "ImmutableEntity"
    ELSE IF dtoStatus # NONE /\ ~validateStateTransition(shipment.status, dtoStatus)
      THEN "InvalidTransition"
      ELSE "pass"

\* the outcome of the state checks VideosService.upload makes on the row it read
UploadStateCheckSealedOnly(shipment) ==
  IF shipment.status = "SEALED"
    THEN "InvalidState"
    ELSE "pass"

UploadStateCheck(shipment) ==
  IF shipment.status = "SEALED" \/ shipment.status = "FAILED"
    THEN "InvalidState"
    ELSE "pass"

\* the status VideosService.upload writes after the video insert
SealStatusMutant == "PROCESSING"

SealStatus == "SEALED"

(* ------------------------------- state --------------------------------- *)
VARIABLES
  shipments,   \* table shipments: id -> row, or NULL
  videos,      \* table proof_videos: a set of rows
  blobs,       \* object keys stored in the S3 bucket
  ncalls,      \* requests issued so far
  pc,          \* where each handler is
  req,         \* the request each handler serves
  loc,         \* the handler's local variables
  res,         \* the handler's outcome
  links,       \* table share_links: a set of rows
  now,         \* the server clock (new Date()), in ticks
  organizations,  \* table organizations: the ids of its rows
  users        \* table users: a set of rows

vars == <<shipments, videos, blobs, ncalls, pc, req, loc, res, links, now,
          organizations, users>>

NoReq == [op |-> NONE, shipmentId |-> 0, status |-> NONE, awb |-> NONE,
          organizationId |-> NONE, userId |-> NONE]
NoLoc == [cid |-> 0, cur |-> NONE, issuedAt |-> NONE, videoUrl |-> 0, video |-> 0,
          err |-> NULL]

\* the users table when every user belongs to organization o
UsersOf(o) == {[id |-> u, organizationId |-> o] : u \in Users}

\* a row as ShipmentsRepository.create inserts it: status defaults to CREATED
NewShipment(awb, organizationId, createdById) ==
  [awb |-> awb, organizationId |-> organizationId, createdById |-> createdById,
   status |-> "CREATED"]

\* the shipments table when the first request of a behaviour arrives: empty,
\* or holding one shipment an earlier POST /shipments created
InitialShipments ==
  {[i \in ShipmentRows |-> NULL]} \cup
  {[i \in ShipmentRows |-> IF i = 1 THEN NewShipment(a, o, u) ELSE NULL] :
     a \in Awbs, o \in Orgs, u \in Users}

Init ==
  /\ shipments \in InitialShipments
  /\ videos = {}
  /\ blobs = {}
  /\ ncalls = 0
  /\ pc = [p \in Procs |-> "idle"]
  /\ req = [p \in Procs |-> NoReq]
  /\ loc = [p \in Procs |-> NoLoc]
  /\ res = [p \in Procs |-> NONE]
  /\ links = {}
  /\ now = 0
  /\ organizations = OrgIds
  /\ \E o \in Orgs : users = UsersOf(o)

(* ---------------------------- the database ----------------------------- *)
Exists(id) == id \in ShipmentRows /\ shipments[id] # NULL

\* prisma.shipment.findUnique({ where: { awb_organizationId } })
findByAwb(awb, organizationId) ==
  {i \in ShipmentRows : /\ shipments[i] # NULL
                       /\ shipments[i].awb = awb
                       /\ shipments[i].organizationId = organizationId}

\* prisma.proofVideo.findUnique({ where: { shipmentId } })
findByShipmentId(shipmentId) == {v \in videos : v.shipmentId = shipmentId}

\* the unique indexes: TRUE when the insert is admitted
proof_videos_shipmentId_keyOff(shipmentId) == TRUE

proof_videos_shipmentId_key(shipmentId) ==
  \A v \in videos : v.shipmentId # shipmentId

shipments_awb_organizationId_keyOff(awb, organizationId) == TRUE

shipments_awb_organizationId_key(awb, organizationId) ==
  \A i \in ShipmentRows :
     shipments[i] # NULL =>
       ~(shipments[i].awb = awb /\ shipments[i].organizationId = organizationId)

\* the foreign keys of shipments and proof_videos: the referenced row exists
shipments_organizationId_fkey(organizationId) == organizationId \in organizations

shipments_createdById_fkey(createdById) == \E u \in users : u.id = createdById

proof_videos_shipmentId_fkey(shipmentId) == Exists(shipmentId)

proof_videos_uploadedById_fkey(uploadedById) == \E u \in users : u.id = uploadedById

\* the primary key the database gives a new shipment row
FreshShipmentId == CHOOSE i \in ShipmentRows :
                      /\ shipments[i] = NULL
                      /\ \A j \in ShipmentRows : j < i => shipments[j] # NULL

\* the global exception filter (common/filters/http-exception.filter.ts): the
\* error the caller sees for what a handler threw. A unique-constraint error
\* of the database reaches the caller as Conflict; every other outcome as it is.
AllExceptionsFilter(outcome) ==
  IF outcome = "UniqueViolation" THEN "Conflict" ELSE outcome

InFlight(p) == pc[p] \notin {"idle", "done"}

\* the handler throws or returns: its uuid and url go out of scope, what it
\* read and what it returns stay observable
Finish(p, outcome, l) ==
  /\ pc' = [pc EXCEPT ![p] = "done"]
  /\ res' = [res EXCEPT ![p] = outcome]
  /\ loc' = [loc EXCEPT ![p] = [l EXCEPT !.cid = 0, !.videoUrl = 0]]

\* the handler awaits and resumes at its next statement
Goto(p, label, l) ==
  /\ pc' = [pc EXCEPT ![p] = label]
  /\ loc' = [loc EXCEPT ![p] = l]
  /\ UNCHANGED res

(* --------------------------- requests arrive --------------------------- *)
\* issuedAt records, for an upload, the status persisted when the request arrives
Arrive(p, r, label) ==
  /\ ~InFlight(p)
  /\ ncalls' = ncalls + 1
  /\ req' = [req EXCEPT ![p] = r]
  /\ loc' = [loc EXCEPT ![p] =
               [NoLoc EXCEPT !.cid = ncalls + 1,
                             !.issuedAt = IF r.op = "upload" /\ Exists(r.shipmentId)
                                            THEN shipments[r.shipmentId].status
                                            ELSE NONE]]
  /\ pc' = [pc EXCEPT ![p] = label]
  /\ res' = [res EXCEPT ![p] = NONE]
  /\ UNCHANGED <<shipments, videos, blobs, links, now, organizations, users>>

Begin(p, r, label) ==
  /\ ncalls < MaxCalls
  /\ Arrive(p, r, label)

\* POST /shipments
BeginCreate(p) ==
  \E a \in Awbs, o \in Orgs, u \in Users :
    Begin(p, [NoReq EXCEPT !.op = "create", !.awb = a, !.organizationId = o,
                           !.userId = u], "c_find")

\* PATCH /shipments/:id
BeginUpdate(p) ==
  \E id \in ShipmentIds, st \in ShipmentStatus \cup {NONE} :
    Begin(p, [NoReq EXCEPT !.op = "update", !.shipmentId = id, !.status = st],
          "up_find")

\* POST /videos/upload
BeginUpload(p) ==
  \E id \in ShipmentIds, u \in Users :
    Begin(p, [NoReq EXCEPT !.op = "upload", !.shipmentId = id, !.userId = u],
          "u_findVideo")

(* ------------------------ ShipmentsService.create ---------------------- *)
CreateFind(p) ==
  /\ pc[p] = "c_find"
  /\ IF findByAwb(req[p].awb, req[p].organizationId) # {}
       THEN Finish(p, "Conflict", loc[p])
       ELSE Goto(p, "c_insert", loc[p])
  /\ UNCHANGED <<shipments, videos, blobs, ncalls, req, links, now, organizations, users>>

CreateInsert(p) ==
  /\ pc[p] = "c_insert"
  /\ IF ~shipments_awb_organizationId_key(req[p].awb, req[p].organizationId)
       THEN /\ UNCHANGED shipments
            /\ Finish(p, "UniqueViolation", loc[p])
       ELSE IF /\ shipments_organizationId_fkey(req[p].organizationId)
               /\ shipments_createdById_fkey(req[p].userId)
         THEN /\ shipments' = [shipments EXCEPT ![FreshShipmentId] =
                   NewShipment(req[p].awb, req[p].organizationId, req[p].userId)]
              /\ Finish(p, "ok", loc[p])
         ELSE /\ UNCHANGED shipments
              /\ Finish(p, "ForeignKeyViolation", loc[p])
  /\ UNCHANGED <<videos, blobs, ncalls, req, links, now, organizations, users>>

(* ------------------------ ShipmentsService.update ---------------------- *)
\* findById, then the synchronous checks on the row that was read
UpdateFind(p) ==
  /\ pc[p] = "up_find"
  /\ IF ~Exists(req[p].shipmentId)
       THEN Finish(p, "NotFound", loc[p])
       ELSE LET shipment == shipments[req[p].shipmentId]
                outcome  == UpdateChecks(shipment, req[p].status)
                l        == [loc[p] EXCEPT
                               !.cur = shipment.status,
                               !.err = CASE outcome = "InvalidTransition" ->
                                              InvalidTransitionMessage(shipment.status,
                                                                       req[p].status)
                                         [] outcome = "ImmutableEntity" -> SealedMessage
                                         [] OTHER -> NULL]
            IN  IF outcome = "pass"
                  THEN Goto(p, "up_write", l)
                  ELSE Finish(p, outcome, l)
  /\ UNCHANGED <<shipments, videos, blobs, ncalls, req, links, now, organizations, users>>

\* ShipmentsRepository.update: prisma.shipment.update({ where: { id }, data })
RepositoryUpdateResettingOwner(id, dtoStatus) ==
  IF dtoStatus = NONE
    THEN shipments
    ELSE [shipments EXCEPT ![id].status = dtoStatus, ![id].createdById = NONE]

RepositoryUpdate(id, dtoStatus) ==
  IF dtoStatus = NONE
    THEN shipments
    ELSE [shipments EXCEPT ![id].status = dtoStatus]

UpdateWrite(p) ==
  /\ pc[p] = "up_write"
  /\ shipments' = RepositoryUpdate(req[p].shipmentId, req[p].status)
  /\ Finish(p, "ok", loc[p])
  /\ UNCHANGED <<videos, blobs, ncalls, req, links, now, organizations, users>>

(* ------------------------- VideosService.upload ------------------------ *)
UploadFindVideoStateFirst(p) ==
  /\ pc[p] = "u_findVideo"
  /\ IF Exists(req[p].shipmentId) /\ UploadStateCheck(shipments[req[p].shipmentId]) # "pass"
       THEN Finish(p, "InvalidState", loc[p])
       ELSE IF findByShipmentId(req[p].shipmentId) # {}
         THEN Finish(p, "Conflict", loc[p])
         ELSE Goto(p, "u_findShipment", loc[p])
  /\ UNCHANGED <<shipments, videos, blobs, ncalls, req, links, now, organizations, users>>

UploadFindVideo(p) ==
  /\ pc[p] = "u_findVideo"
  /\ IF findByShipmentId(req[p].shipmentId) # {}
       THEN Finish(p, "Conflict", loc[p])
       ELSE Goto(p, "u_findShipment", loc[p])
  /\ UNCHANGED <<shipments, videos, blobs, ncalls, req, links, now, organizations, users>>

UploadFindShipmentStoring(p) ==
  /\ pc[p] = "u_findShipment"
  /\ blobs' = blobs \cup {loc[p].cid}
  /\ IF ~Exists(req[p].shipmentId)
       THEN Finish(p, "NotFound", loc[p])
       ELSE LET outcome == UploadStateCheck(shipments[req[p].shipmentId])
            IN  IF outcome = "pass"
                  THEN Goto(p, "u_create", [loc[p] EXCEPT !.videoUrl = loc[p].cid])
                  ELSE Finish(p, outcome, loc[p])
  /\ UNCHANGED <<shipments, videos, ncalls, req, links, now, organizations, users>>

UploadFindShipment(p) ==
  /\ pc[p] = "u_findShipment"
  /\ IF ~Exists(req[p].shipmentId)
       THEN Finish(p, "NotFound", loc[p])
       ELSE LET outcome == UploadStateCheck(shipments[req[p].shipmentId])
            IN  IF outcome = "pass"
                  THEN Goto(p, "u_s3", loc[p])
                  ELSE Finish(p, outcome, loc[p])
  /\ UNCHANGED <<shipments, videos, blobs, ncalls, req, links, now, organizations, users>>

\* S3Service.uploadFile resolves: the object is stored under a fresh key
UploadS3Ok(p) ==
  /\ pc[p] = "u_s3"
  /\ blobs' = blobs \cup {loc[p].cid}
  /\ Goto(p, "u_create", [loc[p] EXCEPT !.videoUrl = loc[p].cid])
  /\ UNCHANGED <<shipments, videos, ncalls, req, links, now, organizations, users>>

\* S3Service.uploadFile rejects with InternalServerErrorException
UploadS3FailSealing(p) ==
  /\ pc[p] = "u_s3"
  /\ shipments' = [shipments EXCEPT ![req[p].shipmentId].status = SealStatus]
  /\ Finish(p, "UploadFailed", loc[p])
  /\ UNCHANGED <<videos, blobs, ncalls, req, links, now, organizations, users>>

UploadS3Fail(p) ==
  /\ pc[p] = "u_s3"
  /\ Finish(p, "UploadFailed", loc[p])
  /\ UNCHANGED <<shipments, videos, blobs, ncalls, req, links, now, organizations, users>>

\* VideosRepository.create: prisma.proofVideo.create
UploadCreateVideo(p) ==
  /\ pc[p] = "u_create"
  /\ IF ~proof_videos_shipmentId_key(req[p].shipmentId)
       THEN /\ UNCHANGED videos
            /\ Finish(p, "UniqueViolation", loc[p])
       ELSE IF /\ proof_videos_shipmentId_fkey(req[p].shipmentId)
               /\ proof_videos_uploadedById_fkey(req[p].userId)
         THEN /\ videos' = videos \cup
                   {[id |-> loc[p].cid, shipmentId |-> req[p].shipmentId,
                     videoUrl |-> loc[p].videoUrl, uploadedById |-> req[p].userId]}
              /\ Goto(p, "u_seal", [loc[p] EXCEPT !.video = loc[p].cid])
         ELSE /\ UNCHANGED videos
              /\ Finish(p, "ForeignKeyViolation", loc[p])
  /\ UNCHANGED <<shipments, blobs, ncalls, req, links, now, organizations, users>>

\* shipmentsRepository.update(shipmentId, { status: SEALED }); return video
UploadSeal(p) ==
  /\ pc[p] = "u_seal"
  /\ shipments' = RepositoryUpdate(req[p].shipmentId, SealStatus)
  /\ Finish(p, "ok", loc[p])
  /\ UNCHANGED <<videos, blobs, ncalls, req, links, now, organizations, users>>

\* the awaited seal rejects (the connection to the database is lost)
UploadSealError(p) ==
  /\ pc[p] = "u_seal"
  /\ Finish(p, "DatabaseError", [loc[p] EXCEPT !.video = 0])
  /\ UNCHANGED <<shipments, videos, blobs, ncalls, req, links, now, organizations, users>>

(* ---------------------------- share links ----------------------------- *)
\* expiresIn: the expiresInHours of the request body, in half hours;
\* expiresInHours: the number the service receives
NoLinkReq == [op |-> NONE, proofVideoId |-> 0, expiresIn |-> 0,
              expiresInHours |-> 0, token |-> NONE, id |-> 0]
\* token, expiresAt: what create computed; at: the value of new Date() the
\* handler read; shareLink: the row a query returned; count: deleteMany's count.
\* The createdAt column of share_links is written by the database and read by
\* no operation modelled here; rows are modelled without it.
NoLinkLoc == [cid |-> 0, token |-> NONE, expiresAt |-> 0, at |-> 0,
              shareLink |-> NULL, count |-> 0]

\* expiresAt.setHours(expiresAt.getHours() + expiresInHours)
SetHours(date, expiresInHours) == date + expiresInHours * HourTicks

\* prisma.shareLink.findUnique({ where: { token } }) / ({ where: { id } })
findByTokenAny(token) == links

findByToken(token) == {l \in links : l.token = token}
findLinkById(id) == {l \in links : l.id = id}

\* the unique index on share_links.token and the foreign key to proof_videos
share_links_token_keyOff(token) == TRUE

share_links_token_key(token) == \A l \in links : l.token # token
share_links_proofVideoId_fkeyOff(proofVideoId) == TRUE
share_links_proofVideoId_fkey(proofVideoId) == \E v \in videos : v.id = proofVideoId

BeginLink(p, r, l, label) ==
  /\ ~InFlight(p)
  /\ ncalls < MaxCalls
  /\ ncalls' = ncalls + 1
  /\ req' = [req EXCEPT ![p] = r]
  /\ loc' = [loc EXCEPT ![p] = l]
  /\ pc' = [pc EXCEPT ![p] = label]
  /\ res' = [res EXCEPT ![p] = NONE]
  /\ UNCHANGED <<shipments, videos, blobs, links, now, organizations, users>>

\* the handler throws or returns: its parameters and locals go out of scope;
\* which operation it was, its outcome and the count that cleanupExpired
\* returns stay observable
Return(p, outcome, l) ==
  /\ pc' = [pc EXCEPT ![p] = "done"]
  /\ res' = [res EXCEPT ![p] = outcome]
  /\ req' = [req EXCEPT ![p] = [NoLinkReq EXCEPT !.op = req[p].op]]
  /\ loc' = [loc EXCEPT ![p] = [NoLinkLoc EXCEPT !.count = l.count]]

\* the handler returns the row of a query that nothing else keeps
ReturnRow(p, outcome, row) ==
  /\ pc' = [pc EXCEPT ![p] = "done"]
  /\ res' = [res EXCEPT ![p] = outcome]
  /\ req' = [req EXCEPT ![p] = [NoLinkReq EXCEPT !.op = req[p].op]]
  /\ loc' = [loc EXCEPT ![p] = [NoLinkLoc EXCEPT !.shareLink = row]]

\* @IsInt() on a number written in half hours
IsInt(expiresIn) == expiresIn % HourTicks = 0
\* @Min(n) on a number written in half hours
Min(n, expiresIn) == expiresIn >= n * HourTicks
CreateShareLinkDtoAllowingZero(expiresIn) == IsInt(expiresIn) /\ Min(0, expiresIn)
\* CreateShareLinkDto: @IsInt() @Min(1) expiresInHours
CreateShareLinkDto(expiresIn) == IsInt(expiresIn) /\ Min(1, expiresIn)
\* The global validation pipe: a body that breaks a constraint of its DTO is
\* answered with 400 before the controller method runs.
ValidationPipe(valid) == IF valid THEN "ok" ELSE "InvalidArgument"

\* POST /share-links arrives with its body
BeginLinkCreate(p) ==
  \E v \in ProofVideoIds, e \in RequestedExpiresIn :
    BeginLink(p, [NoLinkReq EXCEPT !.op = "createLink", !.proofVideoId = v,
                                   !.expiresIn = e],
              [NoLinkLoc EXCEPT !.cid = ncalls + 1], "l_pipe")

\* The body passes the pipe or is refused; ShareLinksService.create computes
\* the token and expiresAt before the insert.
LinkCreate(p) ==
  /\ pc[p] = "l_pipe"
  /\ IF ValidationPipe(CreateShareLinkDto(req[p].expiresIn)) = "ok"
       THEN \E tk \in Tokens :
              LET h == req[p].expiresIn \div HourTicks IN
              /\ req' = [req EXCEPT ![p].expiresInHours = h]
              /\ loc' = [loc EXCEPT ![p].token = tk, ![p].at = now,
                                     ![p].expiresAt = SetHours(now, h)]
              /\ pc' = [pc EXCEPT ![p] = "l_insert"]
              /\ UNCHANGED res
       ELSE Return(p, "InvalidArgument", loc[p])
  /\ UNCHANGED <<shipments, videos, blobs, links, now, ncalls, organizations, users>>

\* ShareLinksRepository.create: prisma.shareLink.create
LinkInsertSealedOnly(p) ==
  /\ pc[p] = "l_insert"
  /\ IF ~share_links_proofVideoId_fkey(req[p].proofVideoId)
       THEN /\ UNCHANGED links
            /\ Return(p, "ForeignKeyViolation", loc[p])
       ELSE IF \E v \in videos : /\ v.id = req[p].proofVideoId
                                 /\ shipments[v.shipmentId].status # "SEALED"
         THEN /\ UNCHANGED links
              /\ Return(p, "InvalidState", loc[p])
         ELSE IF ~share_links_token_key(loc[p].token)
           THEN /\ UNCHANGED links
                /\ Return(p, "UniqueViolation", loc[p])
           ELSE LET row == [id |-> loc[p].cid, token |-> loc[p].token,
                            proofVideoId |-> req[p].proofVideoId,
                            expiresAt |-> loc[p].expiresAt]
                IN  /\ links' = links \cup {row}
                    /\ Return(p, "ok", [loc[p] EXCEPT !.shareLink = row])
  /\ UNCHANGED <<shipments, videos, blobs, ncalls, now, organizations, users>>

LinkInsert(p) ==
  /\ pc[p] = "l_insert"
  /\ IF ~share_links_proofVideoId_fkey(req[p].proofVideoId)
       THEN /\ UNCHANGED links
            /\ Return(p, "ForeignKeyViolation", loc[p])
       ELSE IF ~share_links_token_key(loc[p].token)
         THEN /\ UNCHANGED links
              /\ Return(p, "UniqueViolation", loc[p])
         ELSE LET row == [id |-> loc[p].cid, token |-> loc[p].token,
                          proofVideoId |-> req[p].proofVideoId,
                          expiresAt |-> loc[p].expiresAt]
              IN  /\ links' = links \cup {row}
                  /\ Return(p, "ok", [loc[p] EXCEPT !.shareLink = row])
  /\ UNCHANGED <<shipments, videos, blobs, ncalls, now, organizations, users>>

\* POST /share-links/validate
BeginValidate(p) ==
  \E tk \in Tokens :
    BeginLink(p, [NoLinkReq EXCEPT !.op = "validateToken", !.token = tk],
              NoLinkLoc, "v_find")

\* shareLinksRepository.findByToken, and the NotFoundException on null
ValidateFind(p) ==
  /\ pc[p] = "v_find"
  /\ IF findByToken(req[p].token) = {}
       THEN Return(p, "NotFound", loc[p])
       ELSE \E l \in findByToken(req[p].token) :
              /\ pc' = [pc EXCEPT ![p] = "v_check"]
              /\ loc' = [loc EXCEPT ![p].shareLink = l]
              /\ UNCHANGED <<res, req>>
  /\ UNCHANGED <<shipments, videos, blobs, ncalls, links, now, organizations, users>>

\* if (new Date() > shareLink.expiresAt) throw UnauthorizedException
ValidateCheckDeleting(p) ==
  /\ pc[p] = "v_check"
  /\ IF now > loc[p].shareLink.expiresAt
       THEN /\ links' = links \ {loc[p].shareLink}
            /\ Return(p, "Expired", loc[p])
       ELSE /\ UNCHANGED links
            /\ Return(p, "ok", loc[p])
  /\ UNCHANGED <<shipments, videos, blobs, ncalls, now, organizations, users>>

ValidateCheckInclusive(p) ==
  /\ pc[p] = "v_check"
  /\ Return(p, IF now >= loc[p].shareLink.expiresAt THEN "Expired" ELSE "ok",
            [loc[p] EXCEPT !.at = now])
  /\ UNCHANGED <<shipments, videos, blobs, ncalls, links, now, organizations, users>>

ValidateCheck(p) ==
  /\ pc[p] = "v_check"
  /\ Return(p, IF now > loc[p].shareLink.expiresAt THEN "Expired" ELSE "ok",
            [loc[p] EXCEPT !.at = now])
  /\ UNCHANGED <<shipments, videos, blobs, ncalls, links, now, organizations, users>>

\* DELETE /share-links/:id
BeginDelete(p) ==
  \E id \in LinkIds :
    BeginLink(p, [NoLinkReq EXCEPT !.op = "delete", !.id = id], NoLinkLoc, "d_find")

\* ShareLinksService.findById, and the NotFoundException on null
DeleteFind(p) ==
  /\ pc[p] = "d_find"
  /\ IF findLinkById(req[p].id) = {}
       THEN Return(p, "NotFound", loc[p])
       ELSE \E l \in findLinkById(req[p].id) :
              /\ pc' = [pc EXCEPT ![p] = "d_delete"]
              /\ loc' = [loc EXCEPT ![p].shareLink = l]
              /\ UNCHANGED <<res, req>>
  /\ UNCHANGED <<shipments, videos, blobs, ncalls, links, now, organizations, users>>

\* ShareLinksRepository.delete: prisma.shareLink.delete({ where: { id } })
DeleteRowAll(p) ==
  /\ pc[p] = "d_delete"
  /\ links' = {}
  /\ Return(p, "ok", loc[p])
  /\ UNCHANGED <<shipments, videos, blobs, ncalls, now, organizations, users>>

DeleteRowWithVideo(p) ==
  /\ pc[p] = "d_delete"
  /\ links' = links \ findLinkById(req[p].id)
  /\ videos' = {v \in videos : \A l \in findLinkById(req[p].id) : l.proofVideoId # v.id}
  /\ Return(p, "ok", loc[p])
  /\ UNCHANGED <<shipments, blobs, ncalls, now, organizations, users>>

\* The call answers with the row it has removed, which is stored nowhere else.
DeleteRow(p) ==
  /\ pc[p] = "d_delete"
  /\ IF findLinkById(req[p].id) = {}
       THEN /\ UNCHANGED links
            /\ Return(p, "RecordNotFound", loc[p])
       ELSE /\ links' = links \ findLinkById(req[p].id)
            /\ \E l \in findLinkById(req[p].id) : ReturnRow(p, "ok", l)
  /\ UNCHANGED <<shipments, videos, blobs, ncalls, now, organizations, users>>

\* DELETE /share-links/cleanup/expired: deleteExpired builds its query, with
\* `lt: new Date()`, before the database runs it
BeginCleanup(p) ==
  BeginLink(p, [NoLinkReq EXCEPT !.op = "cleanupExpired"],
            [NoLinkLoc EXCEPT !.at = now], "x_delete")

\* prisma.shareLink.deleteMany({ where: { expiresAt: { lt } } })
CleanupDeleteInclusive(p) ==
  /\ pc[p] = "x_delete"
  /\ LET expired == {l \in links : l.expiresAt <= loc[p].at}
     IN  /\ links' = links \ expired
         /\ Return(p, "ok", [loc[p] EXCEPT !.count = Cardinality(expired)])
  /\ UNCHANGED <<shipments, videos, blobs, ncalls, now, organizations, users>>

CleanupDelete(p) ==
  /\ pc[p] = "x_delete"
  /\ LET expired == {l \in links : l.expiresAt < loc[p].at}
     IN  /\ links' = links \ expired
         /\ Return(p, "ok", [loc[p] EXCEPT !.count = Cardinality(expired)])
  /\ UNCHANGED <<shipments, videos, blobs, ncalls, now, organizations, users>>

\* time passes
Tick ==
  /\ now < MaxTime
  /\ now' = now + 1
  /\ UNCHANGED <<shipments, videos, blobs, ncalls, pc, req, loc, res, links, organizations, users>>

(* ------------------------- OrganizationsService ------------------------ *)
\* DELETE /organizations/:id
BeginOrgDelete(p) ==
  \E o \in OrgIds :
    Begin(p, [NoReq EXCEPT !.op = "deleteOrganization", !.organizationId = o],
          "o_find")

\* OrganizationsService.delete: await this.findById(id)
OrgDeleteFind(p) ==
  /\ pc[p] = "o_find"
  /\ IF req[p].organizationId \in organizations
       THEN Goto(p, "o_delete", loc[p])
       ELSE Finish(p, "NotFound", loc[p])
  /\ UNCHANGED <<shipments, videos, blobs, ncalls, req, links, now, organizations, users>>

\* ON DELETE RESTRICT of shipments.createdById and proof_videos.uploadedById:
\* the users that a shipment or a proof video names
Referenced ==
  {u \in users :
     \/ \E i \in ShipmentRows :
          shipments[i] # NULL /\ shipments[i].createdById = u.id
     \/ \E v \in videos : v.uploadedById = u.id}

\* what ON DELETE CASCADE removes with organization o: its users, its
\* shipments, their proof videos and the share links of those
CascadeUsers(o) == {u \in users : u.organizationId = o}

CascadeShipments(o) ==
  {i \in ShipmentRows : shipments[i] # NULL /\ shipments[i].organizationId = o}

CascadeVideos(o) == {v \in videos : v.shipmentId \in CascadeShipments(o)}

CascadeLinks(o) == {l \in links : \E v \in CascadeVideos(o) : l.proofVideoId = v.id}

\* OrganizationsRepository.delete: prisma.organization.delete. The delete
\* cascades to users first (the constraint created first); a user that a
\* shipment or a proof video names stops it.
OrgDelete(p) ==
  /\ pc[p] = "o_delete"
  /\ LET o == req[p].organizationId IN
     IF o \notin organizations
       THEN /\ Finish(p, "RecordNotFound", loc[p])
            /\ UNCHANGED <<shipments, videos, links, organizations, users>>
       ELSE IF CascadeUsers(o) \cap Referenced # {}
         THEN /\ Finish(p, "ForeignKeyViolation", loc[p])
              /\ UNCHANGED <<shipments, videos, links, organizations, users>>
         ELSE /\ organizations' = organizations \ {o}
              /\ users' = users \ CascadeUsers(o)
              /\ shipments' = [i \in ShipmentRows |->
                                 IF i \in CascadeShipments(o) THEN NULL ELSE shipments[i]]
              /\ videos' = videos \ CascadeVideos(o)
              /\ links' = links \ CascadeLinks(o)
              /\ Finish(p, "ok", loc[p])
  /\ UNCHANGED <<blobs, ncalls, req, now>>

(* ------------------------------ behaviours ----------------------------- *)
Step(p) ==
  \/ CreateFind(p)
  \/ CreateInsert(p)
  \/ UpdateFind(p)
  \/ UpdateWrite(p)
  \/ UploadFindVideo(p)
  \/ UploadFindShipment(p)
  \/ UploadS3Ok(p)
  \/ UploadS3Fail(p)
  \/ UploadCreateVideo(p)
  \/ UploadSeal(p)
  \/ UploadSealError(p)

Next ==
  \E p \in Procs :
    \/ BeginCreate(p)
    \/ BeginUpdate(p)
    \/ BeginUpload(p)
    \/ Step(p)

Spec == Init /\ [][Next]_vars

\* requests served one at a time: a request arrives only when none is in flight
Quiet == \A q \in Procs : ~InFlight(q)

SeqNext ==
  \E p \in Procs :
    \/ Quiet /\ BeginCreate(p)
    \/ Quiet /\ BeginUpdate(p)
    \/ Quiet /\ BeginUpload(p)
    \/ Step(p)

SeqSpec == Init /\ [][SeqNext]_vars

\* a proof video as an upload stored it, and a share link issued for it at time 0
SeedVideo(u) ==
  [id |-> SeedId, shipmentId |-> 1, videoUrl |-> SeedId, uploadedById |-> u]

SeedLink(tk, h) ==
  [id |-> SeedId, token |-> tk, proofVideoId |-> SeedId, expiresAt |-> SetHours(0, h)]

\* the contract of one call: requests served one at a time, starting from an
\* empty table or from a shipment that earlier requests have brought to any
\* status of the lifecycle: without a proof video, with one (an upload stored
\* it; see C2 and C7 for the statuses other than SEALED), or with a proof video
\* and a share link to it
ContractInit ==
  /\ \/ /\ shipments \in InitialShipments
        /\ videos = {} /\ blobs = {} /\ links = {}
     \/ \E a \in Awbs, o \in Orgs, u \in Users, st \in ShipmentStatus :
          /\ shipments = [i \in ShipmentRows |->
               IF i = 1 THEN [NewShipment(a, o, u) EXCEPT !.status = st] ELSE NULL]
          /\ \/ videos = {} /\ blobs = {} /\ links = {}
             \/ /\ videos = {SeedVideo(u)} /\ blobs = {SeedId}
                /\ \/ links = {}
                   \/ \E tk \in Tokens, h \in ExpiresInHours : links = {SeedLink(tk, h)}
  /\ ncalls = 0
  /\ pc = [p \in Procs |-> "idle"]
  /\ req = [p \in Procs |-> NoReq]
  /\ loc = [p \in Procs |-> NoLoc]
  /\ res = [p \in Procs |-> NONE]
  /\ now = 0
  /\ organizations = OrgIds
  /\ \E o \in Orgs : users = UsersOf(o)

ContractSpec == ContractInit /\ [][SeqNext]_vars

\* the requests ShipmentsService serves, any number of them in flight
ShipmentsNext ==
  \E p \in Procs :
    \/ BeginCreate(p)
    \/ BeginUpdate(p)
    \/ CreateFind(p)
    \/ CreateInsert(p)
    \/ UpdateFind(p)
    \/ UpdateWrite(p)

ShipmentsSpec == Init /\ [][ShipmentsNext]_vars

\* The complete flow of the lifecycle, with the refused requests of the
\* specification's scenario: the requests in the order they are sent.
CompleteFlow(a, o, u) ==
  << [NoReq EXCEPT !.op = "create", !.awb = a, !.organizationId = o, !.userId = u],
     [NoReq EXCEPT !.op = "update", !.shipmentId = 1, !.status = "RECORDING"],
     [NoReq EXCEPT !.op = "update", !.shipmentId = 1, !.status = "SEALED"],
     [NoReq EXCEPT !.op = "update", !.shipmentId = 1, !.status = "PROCESSING"],
     [NoReq EXCEPT !.op = "upload", !.shipmentId = 1, !.userId = u],
     [NoReq EXCEPT !.op = "update", !.shipmentId = 1, !.status = "FAILED"] >>

\* the first statement of the handler of a request
Entry(r) ==
  CASE r.op = "create" -> "c_find"
    [] r.op = "update" -> "up_find"
    [] r.op = "upload" -> "u_findVideo"

\* the next request of the flow is sent when the one before it is answered
FlowCall(p) ==
  \E a \in Awbs, o \in Orgs, u \in Users :
    LET flow == CompleteFlow(a, o, u) IN
    /\ Quiet
    /\ ncalls < Len(flow)
    /\ Arrive(p, flow[ncalls + 1], Entry(flow[ncalls + 1]))

\* the flow on an empty table, the database and the bucket answering
FlowInit ==
  /\ Init
  /\ \A i \in ShipmentRows : shipments[i] = NULL

FlowNext ==
  \E p \in Procs :
    \/ FlowCall(p)
    \/ CreateFind(p)
    \/ CreateInsert(p)
    \/ UpdateFind(p)
    \/ UpdateWrite(p)
    \/ UploadFindVideo(p)
    \/ UploadFindShipment(p)
    \/ UploadS3Ok(p)
    \/ UploadCreateVideo(p)
    \/ UploadSeal(p)

FlowSpec == FlowInit /\ [][FlowNext]_vars

\* Organizations deleted among the requests for shipments, served one at a
\* time: the user who sends the shipment requests belongs to the organization
\* the requests name or to another one.
OrgInit ==
  /\ \/ /\ shipments \in InitialShipments
        /\ videos = {} /\ blobs = {} /\ links = {}
     \/ \E a \in Awbs, o \in Orgs, u \in Users, st \in ShipmentStatus :
          /\ shipments = [i \in ShipmentRows |->
               IF i = 1 THEN [NewShipment(a, o, u) EXCEPT !.status = st] ELSE NULL]
          /\ \/ videos = {} /\ blobs = {} /\ links = {}
             \/ /\ videos = {SeedVideo(u)} /\ blobs = {SeedId}
                /\ \/ links = {}
                   \/ \E tk \in Tokens, h \in ExpiresInHours : links = {SeedLink(tk, h)}
  /\ ncalls = 0
  /\ pc = [p \in Procs |-> "idle"]
  /\ req = [p \in Procs |-> NoReq]
  /\ loc = [p \in Procs |-> NoLoc]
  /\ res = [p \in Procs |-> NONE]
  /\ now = 0
  /\ organizations = OrgIds
  /\ \E o \in OrgIds : users = UsersOf(o)

OrgNext ==
  \E p \in Procs :
    \/ Quiet /\ BeginCreate(p)
    \/ Quiet /\ BeginUpdate(p)
    \/ Quiet /\ BeginUpload(p)
    \/ Quiet /\ BeginOrgDelete(p)
    \/ Step(p)
    \/ OrgDeleteFind(p)
    \/ OrgDelete(p)

OrgSpec == OrgInit /\ [][OrgNext]_vars

\* share links: a sealed shipment, with its proof video or (the video id a
\* request names being unknown) without one, and no link issued yet
LinkInit ==
  /\ \E a \in Awbs, o \in Orgs, u \in Users :
       /\ shipments = [i \in ShipmentRows |->
            IF i = 1 THEN [NewShipment(a, o, u) EXCEPT !.status = SealStatus]
                     ELSE NULL]
       /\ \/ videos = {SeedVideo(u)} /\ blobs = {SeedId}
          \/ videos = {} /\ blobs = {}
  /\ ncalls = 0
  /\ pc = [p \in Procs |-> "idle"]
  /\ req = [p \in Procs |-> NoLinkReq]
  /\ loc = [p \in Procs |-> NoLinkLoc]
  /\ res = [p \in Procs |-> NONE]
  /\ links = {}
  /\ now = 0
  /\ organizations = OrgIds
  /\ \E o \in Orgs : users = UsersOf(o)

\* share-link requests served one at a time, while time passes
LinkStep(p) ==
  \/ LinkCreate(p)
  \/ LinkInsert(p)
  \/ ValidateFind(p)
  \/ ValidateCheck(p)
  \/ DeleteFind(p)
  \/ DeleteRow(p)
  \/ CleanupDelete(p)

\* Served one at a time, the requests behave the same whichever slot holds
\* them; two slots keep the outcome of the request before the current one.
LinkProcs == {p \in Procs : p <= 2}

LinkNext ==
  \/ \E p \in LinkProcs :
       \/ Quiet /\ BeginLinkCreate(p)
       \/ Quiet /\ BeginValidate(p)
       \/ Quiet /\ BeginDelete(p)
       \/ Quiet /\ BeginCleanup(p)
       \/ LinkStep(p)
  \/ Tick

LinkSpec == LinkInit /\ [][LinkNext]_vars

\* Revocation: the share-link requests served one at a time from a state in
\* which two links to the proof video, with different tokens, have been issued.
RevokeInit ==
  /\ \E a \in Awbs, o \in Orgs, u \in Users :
       /\ shipments = [i \in ShipmentRows |->
            IF i = 1 THEN [NewShipment(a, o, u) EXCEPT !.status = SealStatus]
                     ELSE NULL]
       /\ videos = {SeedVideo(u)} /\ blobs = {SeedId}
  /\ \E tk1, tk2 \in Tokens, h1, h2 \in ExpiresInHours :
       /\ tk1 # tk2
       /\ links = {SeedLink(tk1, h1), [SeedLink(tk2, h2) EXCEPT !.id = SeedId + 1]}
  /\ ncalls = 0
  /\ pc = [p \in Procs |-> "idle"]
  /\ req = [p \in Procs |-> NoLinkReq]
  /\ loc = [p \in Procs |-> NoLinkLoc]
  /\ res = [p \in Procs |-> NONE]
  /\ now = 0
  /\ organizations = OrgIds
  /\ \E o \in Orgs : users = UsersOf(o)

RevokeSpec == RevokeInit /\ [][LinkNext]_vars

\* DELETE /share-links/:id requests in flight together, for the links of
\* RevokeInit and for ids no link has
DeleteRaceNext ==
  \E p \in LinkProcs :
    \/ BeginDelete(p)
    \/ DeleteFind(p)
    \/ DeleteRow(p)

DeleteRaceSpec == RevokeInit /\ [][DeleteRaceNext]_vars

(* ------------------------------ the guards ------------------------------ *)
\* the routes of the three controllers
ShipmentsController ==
  {"POST /shipments", "GET /shipments", "GET /shipments/:id", "PATCH /shipments/:id"}

VideosController ==
  {"POST /videos/upload", "GET /videos", "GET /videos/shipment/:shipmentId",
   "GET /videos/:id"}

ShareLinksController ==
  {"POST /share-links", "GET /share-links", "GET /share-links/:id",
   "POST /share-links/validate", "DELETE /share-links/:id",
   "DELETE /share-links/cleanup/expired"}

Routes == ShipmentsController \cup VideosController \cup ShareLinksController

\* @UseGuards(JwtAuthGuard) on the class or on the method
UseGuardsOnMethodsOnly(route) ==
  route \in ShareLinksController \ {"POST /share-links/validate"}

UseGuards(route) ==
  \/ route \in ShipmentsController
  \/ route \in VideosController
  \/ route \in ShareLinksController \ {"POST /share-links/validate"}

\* JwtAuthGuard.canActivate: the request carries a valid token, from which
\* the user of the request is taken
JwtAuthGuard(userId) == userId # NONE

\* a request arrives at a route, from a user or from a caller without a token
RouteRequest(p) ==
  \E route \in Routes, caller \in Users \cup {NONE} :
    Begin(p, [NoReq EXCEPT !.op = route, !.userId = caller], "guard")

\* the guards of the route run before the method of the controller
CanActivate(p) ==
  /\ pc[p] = "guard"
  /\ IF UseGuards(req[p].op) /\ ~JwtAuthGuard(req[p].userId)
       THEN Finish(p, "Unauthenticated", loc[p])
       ELSE Goto(p, "method", loc[p])
  /\ UNCHANGED <<shipments, videos, blobs, ncalls, req, links, now, organizations, users>>

\* the method of the controller runs and calls its service; what the service
\* does is the matter of the handlers above
ControllerMethod(p) ==
  /\ pc[p] = "method"
  /\ Finish(p, "ok", loc[p])
  /\ UNCHANGED <<shipments, videos, blobs, ncalls, req, links, now, organizations, users>>

GuardNext ==
  \E p \in Procs :
    \/ Quiet /\ RouteRequest(p)
    \/ CanActivate(p)
    \/ ControllerMethod(p)

GuardSpec == Init /\ [][GuardNext]_vars

\* video, shipment and share-link requests together, served one at a time,
\* from a shipment in any status, while time passes; what an earlier request
\* returned is of no account here and one slot holds the request being served
Server == CHOOSE p \in Procs : TRUE

AuditNext ==
  \/ Quiet /\ BeginCreate(Server)
  \/ Quiet /\ BeginUpdate(Server)
  \/ Quiet /\ BeginUpload(Server)
  \/ Quiet /\ BeginLinkCreate(Server)
  \/ Quiet /\ BeginValidate(Server)
  \/ Quiet /\ BeginDelete(Server)
  \/ Quiet /\ BeginCleanup(Server)
  \/ Step(Server)
  \/ LinkStep(Server)
  \/ Tick

AuditSpec == ContractInit /\ [][AuditNext]_vars

(* ------------------------------- claims -------------------------------- *)
\* the transition table as section 4.1 of the specification prints it
TableAllowedNext ==
  [a \in ShipmentStatus |->
     CASE a = "CREATED"    -> {"RECORDING", "FAILED"}
       [] a = "RECORDING"  -> {"PROCESSING", "FAILED"}
       [] a = "PROCESSING" -> {"SEALED", "FAILED"}
       [] a = "SEALED"     -> {}
       [] a = "FAILED"     -> {}]

Terminal == {"SEALED", "FAILED"}
Eligible == {"CREATED", "RECORDING", "PROCESSING"}

\* a finished status update that found its shipment: a is loc.cur, b is req.status
StatusUpdateDone(p) ==
  /\ pc[p] = "done"
  /\ req[p].op = "update"
  /\ req[p].status # NONE
  /\ loc[p].cur # NONE

UploadDone(p) == pc[p] = "done" /\ req[p].op = "upload"

C2_VideoOnlyIfSealed ==
  \A v \in videos : shipments[v.shipmentId].status = "SEALED"

\* C3: in every reachable state each shipment has at most one ProofVideo row.
C3_AtMostOneVideoPerShipment ==
  \A s \in ShipmentIds : Cardinality(findByShipmentId(s)) <= 1

\* an upload that passed the pre-check was turned away by the unique index
C3_Witness ==
  \E p \in Procs :
    /\ UploadDone(p)
    /\ res[p] = "UniqueViolation"
    /\ Cardinality(findByShipmentId(req[p].shipmentId)) = 1

\* C4: of two uploads issued for the same eligible shipment and not stopped by
\* a storage or database failure, exactly one returns its video and the other
\* fails with Conflict.
C4_OneWinnerOthersConflict ==
  \A p, q \in Procs :
    ( /\ p # q
      /\ UploadDone(p) /\ UploadDone(q)
      /\ req[p].shipmentId = req[q].shipmentId
      /\ loc[p].issuedAt \in Eligible /\ loc[q].issuedAt \in Eligible
      /\ res[p] \notin {"UploadFailed", "DatabaseError"}
      /\ res[q] \notin {"UploadFailed", "DatabaseError"} )
    => \/ res[p] = "ok" /\ res[q] = "Conflict"
       \/ res[q] = "ok" /\ res[p] = "Conflict"

\* C5: once a shipment's persisted status is SEALED or FAILED, the shipment
\* never changes again.
C5_TerminalShipmentFrozen ==
  [][\A s \in ShipmentIds :
       (shipments[s] # NULL /\ shipments[s].status \in Terminal)
         => shipments'[s] = shipments[s]]_vars

\* C6: no write of an update or an upload changes the status of a shipment
\* whose persisted status is SEALED or FAILED at the moment of the write.
C6_NoWriteOverTerminal ==
  [][\A p \in Procs :
       ( /\ pc[p] \in {"up_write", "u_seal"}
         /\ pc'[p] = "done"
         /\ shipments[req[p].shipmentId].status \in Terminal )
       => shipments'[req[p].shipmentId].status
            = shipments[req[p].shipmentId].status]_vars

\* C7: no reachable state has a FAILED shipment with a ProofVideo.
C7_NoFailedShipmentWithVideo ==
  \A v \in videos : shipments[v.shipmentId].status # "FAILED"

\* C8: with requests served one at a time, every change of a shipment's
\* persisted status is an edge of the transition table.
C8_EveryChangeIsTableEdge ==
  [][\A s \in ShipmentIds :
       (shipments[s] # NULL /\ shipments'[s].status # shipments[s].status)
         => shipments'[s].status \in TableAllowedNext[shipments[s].status]]_vars

\* C9: when upload returns successfully the shipment's status is SEALED, the
\* shipment has exactly one ProofVideo row, and the returned video is that row.
C9_SuccessfulUploadSealsWithItsVideo ==
  [][\A p \in Procs :
       (pc[p] = "u_seal" /\ pc'[p] = "done" /\ res'[p] = "ok")
       => /\ shipments'[req[p].shipmentId].status = "SEALED"
          /\ \E v \in videos' :
               /\ v.id = loc[p].video
               /\ {w \in videos' : w.shipmentId = req[p].shipmentId} = {v}]_vars

\* an upload has returned its video
C9_Witness ==
  \E p \in Procs :
    /\ UploadDone(p)
    /\ res[p] = "ok"
    /\ \E v \in videos : v.id = loc[p].video /\ v.shipmentId = req[p].shipmentId

\* C10: an upload whose blob-storage call fails reports UploadFailed, and up to
\* and including that failure the call has written no ProofVideo row and no
\* shipment status.
C10_BlobFailureLeavesNoTrace ==
  [][\A p \in Procs :
       ( /\ req[p].op = "upload"
         /\ pc[p] \in {"u_findVideo", "u_findShipment", "u_s3"}
         /\ pc'[p] # pc[p]
         /\ pc'[p] # "u_create" )
       => /\ shipments' = shipments
          /\ videos' = videos
          /\ (pc[p] = "u_s3" => res'[p] = "UploadFailed")]_vars

\* one upload failed in blob storage and returned no video; another upload for
\* the same shipment has succeeded
C10_Witness ==
  \E p, q \in Procs :
    /\ UploadDone(p) /\ res[p] = "UploadFailed"
    /\ UploadDone(q) /\ res[q] = "ok"
    /\ req[q].shipmentId = req[p].shipmentId
    /\ loc[p].video = 0
    /\ \E v \in videos : v.id = loc[q].video /\ v.shipmentId = req[q].shipmentId

SameStatusRead(p) ==
  /\ req[p].op = "update"
  /\ pc[p] = "up_find"
  /\ pc'[p] # pc[p]
  /\ Exists(req[p].shipmentId)
  /\ req[p].status = shipments[req[p].shipmentId].status

\* a status update writes and the requested status is the persisted one
SameStatusWrite(p) ==
  /\ req[p].op = "update"
  /\ pc[p] = "up_write"
  /\ pc'[p] # pc[p]
  /\ req[p].status = shipments[req[p].shipmentId].status

RefusableUpdateDone(p) ==
  /\ StatusUpdateDone(p)
  /\ req[p].status # loc[p].cur

\* the call failed with InvalidTransition and the error carries the current
\* status and the requested status
CarriesTransition(p) ==
  /\ res[p] = "InvalidTransition"
  /\ loc[p].err.currentStatus = loc[p].cur
  /\ loc[p].err.newStatus = req[p].status

\* the legal next states the error lists ("None (terminal state)" is the
\* rendering of the empty list)
AllowedCarried(p) ==
  IF loc[p].err.allowed = <<"None (terminal state)">>
    THEN {}
    ELSE {loc[p].err.allowed[i] : i \in 1..Len(loc[p].err.allowed)}

C15_UpdateChangesOnlyStatus ==
  [][\A p \in Procs :
       (req[p].op = "update" /\ pc[p] \in {"up_find", "up_write"} /\ pc'[p] # pc[p])
       => /\ videos' = videos /\ links' = links /\ blobs' = blobs
          /\ \A s \in ShipmentIds :
               IF s = req[p].shipmentId /\ shipments[s] # NULL
                 THEN shipments'[s] = [shipments[s] EXCEPT !.status = shipments'[s].status]
                 ELSE shipments'[s] = shipments[s]
          /\ res'[p] \in {"NotFound", "ImmutableEntity", "InvalidTransition"}
               => shipments' = shipments
          /\ shipments' # shipments => res'[p] = "ok"]_vars

\* a status update has changed the status of a shipment that has a proof video
\* and a share link
C15_Witness ==
  \E p \in Procs :
    /\ StatusUpdateDone(p)
    /\ res[p] = "ok"
    /\ loc[p].cur # req[p].status
    /\ shipments[req[p].shipmentId].status = req[p].status
    /\ findByShipmentId(req[p].shipmentId) # {}
    /\ links # {}

\* a step of the handler p, which serves the share-link operation op, from label
LinkStepOf(p, op, label) ==
  /\ req[p].op = op
  /\ pc[p] = label
  /\ pc'[p] # pc[p]

\* C16: validateToken has exactly three outcomes: NotFound when no stored link
\* has the token; Expired when a stored link has it and the time is after its
\* expiresAt; otherwise success, returning that link, whose proof video exists.
C16_ValidateTokenThreeOutcomes ==
  [][\A p \in Procs :
       /\ LinkStepOf(p, "validateToken", "v_find") =>
            IF \A l \in links : l.token # req[p].token
              THEN pc'[p] = "done" /\ res'[p] = "NotFound"
              ELSE /\ pc'[p] = "v_check"
                   /\ loc'[p].shareLink \in links
                   /\ loc'[p].shareLink.token = req[p].token
       /\ LinkStepOf(p, "validateToken", "v_check") =>
            /\ pc'[p] = "done"
            /\ IF now > loc[p].shareLink.expiresAt
                 THEN res'[p] = "Expired"
                 ELSE /\ res'[p] = "ok"
                      /\ \E v \in videos : v.id = loc[p].shareLink.proofVideoId]_vars

\* one validation has succeeded and a later one of a stored link has failed
\* with Expired
C16_Witness ==
  \E p, q \in Procs :
    /\ pc[p] = "done" /\ req[p].op = "validateToken" /\ res[p] = "Expired"
    /\ pc[q] = "done" /\ req[q].op = "validateToken" /\ res[q] = "ok"
    /\ \E l \in links : now > l.expiresAt

\* C17: a link issued at time t with expiresInHours = h is stored with
\* expiresAt = t + h hours and keeps that value while it is stored; validateToken
\* of a stored link succeeds at every time up to and including expiresAt and
\* fails with Expired at every later time; a stored link that is past its
\* expiresAt stays so, so that a validation that failed with Expired never
\* succeeds again.
C17_ValidUntilExpiresAtInclusive ==
  [][/\ \A p \in Procs :
          /\ (LinkStepOf(p, "createLink", "l_insert") /\ res'[p] = "ok") =>
               \E l \in links' \ links :
                 /\ links' = links \cup {l}
                 /\ l.token = loc[p].token
                 /\ l.expiresAt = loc[p].at + req[p].expiresInHours * HourTicks
                 /\ loc[p].at <= now
          /\ LinkStepOf(p, "validateToken", "v_check") =>
               (res'[p] = "ok" <=> now <= loc[p].shareLink.expiresAt)
          /\ LinkStepOf(p, "validateToken", "v_check") =>
               (res'[p] = "Expired" <=> now > loc[p].shareLink.expiresAt)
     /\ \A l \in links' :
          \/ l \in links
          \/ \E p \in Procs : LinkStepOf(p, "createLink", "l_insert")
     /\ \A l \in links \cap links' :
          now > l.expiresAt => now' > l.expiresAt]_vars

\* a validation has succeeded while the time is exactly the expiresAt of a
\* stored link issued one hour before
C17_Witness ==
  \E p \in Procs :
    /\ pc[p] = "done" /\ req[p].op = "validateToken" /\ res[p] = "ok"
    /\ Cardinality(links) = 1
    /\ \E l \in links : l.expiresAt = now /\ now = SetHours(0, 1)

\* C18: no step of validateToken changes the stored share links (a call that
\* fails with Expired leaves the expired link stored), and a stored link is
\* removed only by a step of cleanupExpired or of delete.
C18_ValidateNeverDeletes ==
  [][/\ \A p \in Procs :
          (req[p].op = "validateToken" /\ pc'[p] # pc[p] /\ pc[p] \in {"v_find", "v_check"})
            => links' = links
     /\ (links \ links' # {}) =>
          \E p \in Procs : \/ LinkStepOf(p, "cleanupExpired", "x_delete")
                            \/ LinkStepOf(p, "delete", "d_delete")]_vars

\* a validation has failed with Expired and the expired link is still stored
C18_Witness ==
  \E p \in Procs :
    /\ pc[p] = "done" /\ req[p].op = "validateToken" /\ res[p] = "Expired"
    /\ Cardinality({l \in links : now > l.expiresAt}) = 1

\* C19: cleanupExpired, called at time t, removes exactly the stored links with
\* expiresAt < t, leaves every other link untouched and returns the number
\* removed without an error (zero included); afterwards no stored link has
\* expiresAt < t, so a second call at the same time returns 0.
C19_CleanupRemovesExactlyExpired ==
  [][\A p \in Procs :
       LinkStepOf(p, "cleanupExpired", "x_delete") =>
         /\ links' = {l \in links : ~(l.expiresAt < loc[p].at)}
         /\ pc'[p] = "done"
         /\ res'[p] = "ok"
         /\ loc'[p].count = Cardinality({l \in links : l.expiresAt < loc[p].at})
         /\ {l \in links' : l.expiresAt < loc[p].at} = {}]_vars

\* a cleanup has removed one link and the next one, with the clock unchanged,
\* has returned 0
C19_Witness ==
  \E p, q \in Procs :
    /\ pc[p] = "done" /\ req[p].op = "cleanupExpired" /\ res[p] = "ok"
    /\ loc[p].count = 1
    /\ pc[q] = "done" /\ req[q].op = "cleanupExpired" /\ res[q] = "ok"
    /\ loc[q].count = 0
    /\ links = {}
    /\ now = SetHours(0, 1) + 1

\* C20: delete(id) fails with NotFound, leaving the stored links unchanged,
\* when no link has that id; when one has, it removes exactly that link and no
\* other and succeeds.
C20_DeleteRemovesExactlyThatLink ==
  [][\A p \in Procs :
       /\ LinkStepOf(p, "delete", "d_find") =>
            /\ links' = links
            /\ IF \A l \in links : l.id # req[p].id
                 THEN pc'[p] = "done" /\ res'[p] = "NotFound"
                 ELSE pc'[p] = "d_delete"
       /\ (LinkStepOf(p, "delete", "d_delete") /\ \E l \in links : l.id = req[p].id) =>
            /\ pc'[p] = "done"
            /\ res'[p] = "ok"
            /\ links' = {l \in links : l.id # req[p].id}
            /\ Cardinality(links') = Cardinality(links) - 1]_vars

\* of two stored links one has been deleted and the other is still stored
C20_Witness ==
  \E p \in Procs :
    /\ pc[p] = "done" /\ req[p].op = "delete" /\ res[p] = "ok"
    /\ Cardinality(links) = 1
    /\ ncalls = MaxCalls

PositiveIntegerHours(expiresIn) ==
  /\ expiresIn > 0
  /\ expiresIn % HourTicks = 0

\* C22: a request to issue a link whose expiresInHours is not a positive
\* integer (zero, negative or not an integer) fails with InvalidArgument and
\* stores no link: the handler is over when the request is refused and only a
\* request with a positive integer reaches the insert.
C22_ExpiresInHoursMustBePositiveInteger ==
  [][\A p \in Procs :
       /\ ( /\ LinkStepOf(p, "createLink", "l_pipe")
            /\ ~PositiveIntegerHours(req[p].expiresIn) )
          => /\ pc'[p] = "done"
             /\ res'[p] = "InvalidArgument"
             /\ links' = links
       /\ ( LinkStepOf(p, "createLink", "l_insert") /\ links' # links )
          => /\ PositiveIntegerHours(req[p].expiresIn)
             /\ req[p].expiresInHours * HourTicks = req[p].expiresIn
             /\ \E l \in links' \ links : l.expiresAt > loc[p].at]_vars
C22_Witness ==
  \E p \in Procs :
    /\ pc[p] = "done" /\ req[p].op = "createLink" /\ res[p] = "InvalidArgument"
    /\ links = {}
    /\ ncalls = 1

\* the request of the flow that has just been answered leaves the outcome and
\* the database the scenario states
FlowAnswer(k, p) ==
  LET shipment == shipments[1] IN
  /\ shipment # NULL
  /\ CASE k = 1 -> /\ res[p] = "ok"
                   /\ shipment.status = "CREATED"
                   /\ videos = {}
       [] k = 2 -> /\ res[p] = "ok"
                   /\ shipment.status = "RECORDING"
       [] k = 3 -> /\ res[p] = "InvalidTransition"
                   /\ loc[p].err.allowed = <<"PROCESSING", "FAILED">>
                   /\ shipment.status = "RECORDING"
       [] k = 4 -> /\ res[p] = "ok"
                   /\ shipment.status = "PROCESSING"
                   /\ videos = {}
       [] k = 5 -> /\ res[p] = "ok"
                   /\ Cardinality(videos) = 1
                   /\ \A v \in videos : v.shipmentId = 1 /\ v.id = loc[p].video
                   /\ shipment.status = "SEALED"
       [] k = 6 -> /\ res[p] = "ImmutableEntity"
                   /\ Cardinality(videos) = 1
                   /\ shipment.status = "SEALED"
       [] OTHER -> FALSE

\* C23: the lifecycle scenario runs as stated: the new shipment is CREATED;
\* the update to RECORDING succeeds; the update to SEALED fails with
\* InvalidTransition, listing PROCESSING and FAILED as allowed; the update to
\* PROCESSING succeeds; the upload succeeds, creates the video and makes the
\* status SEALED; the update to FAILED that follows fails with ImmutableEntity.
C23_LifecycleScenario ==
  (Quiet /\ ncalls >= 1) =>
    \E a \in Awbs, o \in Orgs, u \in Users, p \in Procs :
      /\ pc[p] = "done"
      /\ req[p] = CompleteFlow(a, o, u)[ncalls]
      /\ FlowAnswer(ncalls, p)
C23_Witness ==
  \E p \in Procs :
    /\ pc[p] = "done" /\ req[p].op = "update" /\ req[p].status = "FAILED"
    /\ res[p] = "ImmutableEntity"
    /\ ncalls = Len(CompleteFlow(req[p].awb, req[p].organizationId, req[p].userId))
    /\ shipments[1].status = "SEALED"
    /\ \E v \in videos : v.shipmentId = 1

\* the handler of p leaves the statement at label
HandlerStepOf(p, op, label) ==
  /\ req[p].op = op
  /\ pc[p] = label
  /\ pc'[p] # pc[p]

\* the rows of the table that hold the pair a create names
StoredPair(p) == findByAwb(req[p].awb, req[p].organizationId)

C25_ShipmentNeverDeleted ==
  [][\A i \in ShipmentRows : shipments[i] # NULL => shipments'[i] # NULL]_vars

\* C26: a proof video, once created, is never updated or deleted by a video,
\* shipment or share-link operation: every stored row is stored unchanged,
\* with its videoUrl, shipmentId and uploadedById, in the next state.
C26_ProofVideoNeverChanges ==
  [][\A v \in videos : v \in videos']_vars
\* an upload has stored a video and later requests of each kind were served
C26_Witness ==
  /\ \E v \in videos : v.id # SeedId
  /\ \E p \in Procs : pc[p] = "done" /\ req[p].op \in {"delete", "cleanupExpired"}
  /\ ncalls = MaxCalls

\* the outcomes of the checks upload makes before it sends the file
PreCheckFailures == {"Conflict", "NotFound", "InvalidState"}

\* C27: a failed pre-check of upload (the shipment has a video, the shipment
\* is not found, the shipment is SEALED or FAILED) has no side effect: the
\* handler fails at one of its two reads, having sent no blob, and the bucket,
\* the proof videos and the shipments are as they were.
C27_FailedPreCheckNoSideEffect ==
  [][\A p \in Procs :
       ( /\ req[p].op = "upload" /\ InFlight(p)
         /\ pc'[p] = "done" /\ res'[p] \in PreCheckFailures )
       => /\ pc[p] \in {"u_findVideo", "u_findShipment"}
          /\ loc[p].videoUrl = 0 /\ loc[p].video = 0
          /\ blobs' = blobs
          /\ videos' = videos
          /\ shipments' = shipments]_vars
C27_Witness ==
  \E p \in Procs :
    /\ pc[p] = "done" /\ req[p].op = "upload" /\ res[p] = "InvalidState"
    /\ shipments[1] # NULL /\ shipments[1].status = "FAILED"
    /\ blobs = {} /\ videos = {}

\* C28: upload for a shipment that has a proof video fails with Conflict
\* whatever the status of the shipment is, the check for the video coming
\* before the check of the status; upload for a shipment id that is not stored
\* fails with NotFound.
C28_ExistingVideoBeforeState ==
  [][\A p \in Procs :
       /\ ( /\ HandlerStepOf(p, "upload", "u_findVideo")
            /\ findByShipmentId(req[p].shipmentId) # {} )
          => pc'[p] = "done" /\ res'[p] = "Conflict"
       /\ ( /\ HandlerStepOf(p, "upload", "u_findVideo")
            /\ ~Exists(req[p].shipmentId) )
          => pc'[p] = "u_findShipment"
       /\ ( /\ HandlerStepOf(p, "upload", "u_findShipment")
            /\ ~Exists(req[p].shipmentId) )
          => pc'[p] = "done" /\ res'[p] = "NotFound"]_vars
C28_Witness ==
  \E p \in Procs :
    /\ pc[p] = "done" /\ req[p].op = "upload" /\ res[p] = "Conflict"
    /\ shipments[1] # NULL /\ shipments[1].status = "FAILED"
    /\ videos # {}

\* C29: among the shipment, video and share-link operations, token validation
\* is the only one a caller without identity can execute: the method of every
\* other route runs for an authenticated caller only.
C29_OnlyValidateIsPublic ==
  \A p \in Procs :
    ( /\ req[p].op \in Routes
      /\ req[p].userId = NONE
      /\ \/ pc[p] = "method"
         \/ pc[p] = "done" /\ res[p] = "ok" )
    => req[p].op = "POST /share-links/validate"
C29_Witness ==
  \E p, q \in Procs :
    /\ pc[p] = "done" /\ req[p].op = "POST /share-links/validate"
    /\ req[p].userId = NONE /\ res[p] = "ok"
    /\ pc[q] = "done" /\ req[q].op = "PATCH /shipments/:id"
    /\ req[q].userId = NONE /\ res[q] = "Unauthenticated"

\* C30: a stale status update is rejected rather than written: whatever the
\* interleaving of concurrent updates of a shipment, each write of an update
\* leaves the persisted status as it is or moves it along an edge of the
\* transition table, so that the status never moves backward and never leaves
\* SEALED or FAILED.
C30_StaleUpdateRejected ==
  [][\A p \in Procs :
       HandlerStepOf(p, "update", "up_write") =>
         LET persisted == shipments[req[p].shipmentId].status
             written   == shipments'[req[p].shipmentId].status
         IN  \/ written = persisted
             \/ written \in TableAllowedNext[persisted]]_vars

C32_UploadOnlyWhenProcessing ==
  [][\A p \in Procs :
       ( /\ HandlerStepOf(p, "upload", "u_findShipment")
         /\ Exists(req[p].shipmentId)
         /\ shipments[req[p].shipmentId].status # "PROCESSING" )
       => /\ pc'[p] = "done"
          /\ res'[p] = "InvalidState"
          /\ videos' = videos]_vars

\* the link is past its expiresAt at time t
PastExpiry(l, t) == t > l.expiresAt

\* C33: expiry checking and cleanup agree at every instant: validateToken,
\* reading the clock at t, rejects a stored link as Expired exactly when the
\* link is past its expiresAt at t, and cleanupExpired, reading the clock at
\* t, deletes a stored link exactly when the link is past its expiresAt at
\* t; a link with expiresAt = t is still valid and is not deleted.
C33_ExpiryAndCleanupAgree ==
  [][\A p \in Procs :
       /\ LinkStepOf(p, "validateToken", "v_check") =>
            /\ res'[p] = "Expired" <=> PastExpiry(loc[p].shareLink, now)
            /\ loc[p].shareLink.expiresAt = now => res'[p] = "ok"
       /\ LinkStepOf(p, "cleanupExpired", "x_delete") =>
            \A l \in links :
              /\ l \notin links' <=> PastExpiry(l, loc[p].at)
              /\ l.expiresAt = loc[p].at => l \in links']_vars
\* at the expiresAt of a stored link a validation succeeded and a cleanup
\* removed nothing
C33_Witness ==
  \E p, q \in Procs :
    /\ pc[p] = "done" /\ req[p].op = "validateToken" /\ res[p] = "ok"
    /\ pc[q] = "done" /\ req[q].op = "cleanupExpired" /\ loc[q].count = 0
    /\ \E l \in links : l.expiresAt = now
    /\ now = SetHours(0, 1)
    /\ ncalls = MaxCalls

\* the slot p holds the answer of a delete that succeeded: the row it removed
Revoked(p) ==
  /\ pc[p] = "done"
  /\ req[p].op = "delete"
  /\ res[p] = "ok"
  /\ loc[p].shareLink # NULL

\* C34 as stated: revocation is permanent: once delete(id) has succeeded for
\* a link, every later validateToken with the token of that link fails with
\* NotFound, whatever links are issued, revoked or cleaned up in between.
C34_RevocationPermanent ==
  [][\A p, q \in Procs :
       ( /\ Revoked(p)
         /\ LinkStepOf(q, "validateToken", "v_find")
         /\ req[q].token = loc[p].shareLink.token )
       => /\ pc'[q] = "done"
          /\ res'[q] = "NotFound"]_vars

\* C34, amended: once delete(id) has succeeded for a link, every later
\* validateToken with the token of that link fails with NotFound unless a
\* create after the revocation has generated the same token again, in which
\* case it finds the link which that create has stored.
C34_RevokedUntilTokenReissued ==
  [][\A p, q \in Procs :
       ( /\ Revoked(p)
         /\ LinkStepOf(q, "validateToken", "v_find")
         /\ req[q].token = loc[p].shareLink.token )
       => \/ pc'[q] = "done" /\ res'[q] = "NotFound"
          \/ /\ pc'[q] = "v_check"
             /\ loc'[q].shareLink \in links
             /\ loc'[q].shareLink.token = req[q].token
             /\ loc'[q].shareLink.id \in 1..MaxCalls]_vars
\* one of the two links issued at the start has been revoked and the other is
\* still stored, so the validation that found nothing asked for the token of
\* the revoked link, after the revocation
C34_Witness ==
  \E p, q \in Procs :
    /\ Revoked(p)
    /\ pc[q] = "done" /\ req[q].op = "validateToken" /\ res[q] = "NotFound"
    /\ \E k \in links : k.id \in {SeedId, SeedId + 1} /\ k.token # loc[p].shareLink.token
    /\ loc[p].shareLink.id \in {SeedId, SeedId + 1}

\* the delete calls in p and q, for the same link, overlap: q has found the
\* link and p is in flight for its id or has removed it since
DeletesOverlap(p, q) ==
  /\ p # q
  /\ req[p].op = "delete"
  /\ req[q].op = "delete" /\ pc[q] = "d_delete"
  /\ \/ InFlight(p) /\ req[p].id = req[q].id
     \/ Revoked(p) /\ loc[p].shareLink = loc[q].shareLink

\* C35: of two delete calls for the same stored link that run concurrently,
\* exactly one succeeds, removing that link and no other; the other fails
\* with NotFound and with no other error.
C35_ConcurrentDeletesOneNotFound ==
  [][\A p, q \in Procs :
       (DeletesOverlap(p, q) /\ LinkStepOf(q, "delete", "d_delete"))
       => /\ pc'[q] = "done"
          /\ links' = {l \in links : l.id # req[q].id}
          /\ IF \E l \in links : l.id = req[q].id
               THEN res'[q] = "ok"
               ELSE res'[q] = "NotFound"]_vars

\* every stored link has its proof video and every proof video its shipment
ReferencesHold(ls, vs, ss) ==
  /\ \A l \in ls : \E v \in vs : v.id = l.proofVideoId
  /\ \A v \in vs : v.shipmentId \in ShipmentRows /\ ss[v.shipmentId] # NULL

\* C36: in every reachable state every stored share link references a proof
\* video that exists and every proof video references a shipment that
\* exists; issuing a link for a proofVideoId that no video has fails and
\* stores nothing.
C36_ReferentialIntegrity ==
  [][/\ ReferencesHold(links, videos, shipments)
     /\ ReferencesHold(links', videos', shipments')
     /\ \A p \in Procs :
          ( /\ LinkStepOf(p, "createLink", "l_insert")
            /\ \A v \in videos : v.id # req[p].proofVideoId )
          => /\ pc'[p] = "done"
             /\ res'[p] \notin {"ok", NONE}
             /\ links' = links]_vars
\* a link was asked for while no proof video is stored, and was refused
C36_Witness ==
  \E p \in Procs :
    /\ pc[p] = "done" /\ req[p].op = "createLink" /\ res[p] = "ForeignKeyViolation"
    /\ videos = {} /\ links = {}

\* C37: whenever no upload call is in progress, every object that upload calls
\* have stored in blob storage is the videoUrl of exactly one proof video: an
\* upload that does not end by persisting its video leaves no object behind.
C37_NoOrphanedObject ==
  (\A p \in Procs : ~(InFlight(p) /\ req[p].op = "upload"))
    => \A b \in blobs : Cardinality({v \in videos : v.videoUrl = b}) = 1

\* C38: issuing a share link does not depend on the status of the shipment:
\* create for a proof video that exists, whatever the status of its shipment
\* and however many links the video already has, succeeds and stores one
\* more link to that video (the generated token being that of no stored link,
\* see C21).
C38_LinkIssuedWhateverTheStatus ==
  [][\A p \in Procs :
       ( /\ LinkStepOf(p, "createLink", "l_insert")
         /\ \E v \in videos : v.id = req[p].proofVideoId
         /\ \A l \in links : l.token # loc[p].token )
       => /\ pc'[p] = "done"
          /\ res'[p] = "ok"
          /\ \E l \in links' \ links : /\ l.proofVideoId = req[p].proofVideoId
                                       /\ links' = links \cup {l}
          /\ shipments' = shipments]_vars
\* a second link to the video of a shipment that is not sealed has been issued
C38_Witness ==
  \E p \in Procs, v \in videos :
    /\ pc[p] = "done" /\ req[p].op = "createLink" /\ res[p] = "ok"
    /\ shipments[v.shipmentId].status \in {"CREATED", "RECORDING", "PROCESSING", "FAILED"}
    /\ Cardinality({l \in links : l.proofVideoId = v.id}) = 2

====
